---- MODULE Spec2Model ----
(***************************************************************************)
(* Xit: the constants header XTConstants.h.                                *)
(*                                                                         *)
(* The header declares three C enumerations (XTRefType,                    *)
(* XTSideBarRootItems, XTError) and two global NSString pointers           *)
(* (XTErrorDomainXit, XTErrorDomainGit).  The enumerations are modelled as *)
(* their declarator lists, and the value of every enumerator is computed   *)
(* by the C rule (an explicit initializer, else 0 for the first            *)
(* enumerator, else the previous value plus one).  The two globals are the *)
(* variables of the same name.  The threads of the process use the header: *)
(* they load a domain identifier, build an error, classify a reference,    *)
(* and the sidebar lists its root groups by ascending ordinal.             *)
(***************************************************************************)
EXTENDS Integers, Sequences, FiniteSets

(***************************************************************************)
(* Bounds of the model.                                                    *)
(***************************************************************************)
NumThreads == 2
MaxGitCode == 1

Threads == 1..NumThreads

(***************************************************************************)
(* Enumerator declarators: a name, and an initializer when one is written. *)
(***************************************************************************)
Enumerator(n) == [name |-> n, init |-> <<>>]

EnumeratorInit(n, v) == [name |-> n, init |-> <<v>>]

(* XTRefTypeUnknown written with an explicit "= 0". *)
XTRefTypeDeclUnknownZero ==
  << Enumerator("XTRefTypeBranch"),
     Enumerator("XTRefTypeActiveBranch"),
     Enumerator("XTRefTypeRemoteBranch"),
     Enumerator("XTRefTypeTag"),
     Enumerator("XTRefTypeRemote"),
     EnumeratorInit("XTRefTypeUnknown", 0) >>

XTRefTypeDecl ==
  << Enumerator("XTRefTypeBranch"),
     Enumerator("XTRefTypeActiveBranch"),
     Enumerator("XTRefTypeRemoteBranch"),
     Enumerator("XTRefTypeTag"),
     Enumerator("XTRefTypeRemote"),
     Enumerator("XTRefTypeUnknown") >>

(* The Remotes and Tags groups declared in the other order. *)
XTSideBarRootItemsDeclSwapped ==
  << Enumerator("XTBranchesGroupIndex"),
     Enumerator("XTTagsGroupIndex"),
     Enumerator("XTRemotesGroupIndex"),
     Enumerator("XTStashesGroupIndex") >>

XTSideBarRootItemsDecl ==
  << Enumerator("XTBranchesGroupIndex"),
     Enumerator("XTRemotesGroupIndex"),
     Enumerator("XTTagsGroupIndex"),
     Enumerator("XTStashesGroupIndex") >>

(* XTErrorWriteLock written without its "= 1". *)
XTErrorDeclNoInit ==
  << Enumerator("XTErrorWriteLock") >>

(* A second error code declared after XTErrorWriteLock. *)
XTErrorDeclSecondMember ==
  << EnumeratorInit("XTErrorWriteLock", 1),
     Enumerator("XTErrorReadLock") >>

(* XTErrorWriteLock written with "= 0". *)
XTErrorDeclZero ==
  << EnumeratorInit("XTErrorWriteLock", 0) >>

XTErrorDecl ==
  << EnumeratorInit("XTErrorWriteLock", 1) >>

(***************************************************************************)
(* The value of the i-th enumerator of a declarator list.                  *)
(***************************************************************************)
RECURSIVE EnumValueFromOne(_, _)
(* Numbering that starts at 1. *)
EnumValueFromOne(decl, i) ==
  IF decl[i].init # <<>> THEN decl[i].init[1]
  ELSE IF i = 1 THEN 1
  ELSE EnumValueFromOne(decl, i - 1) + 1

RECURSIVE EnumValue(_, _)
EnumValue(decl, i) ==
  IF decl[i].init # <<>> THEN decl[i].init[1]
  ELSE IF i = 1 THEN 0
  ELSE EnumValue(decl, i - 1) + 1

Members(decl) == {decl[i].name : i \in 1..Len(decl)}

Ordinals(decl) == {EnumValue(decl, i) : i \in 1..Len(decl)}

(* The enumerators of decl whose value is n. *)
NamesOf(decl, n) ==
  {decl[i].name : i \in {j \in 1..Len(decl) : EnumValue(decl, j) = n}}

(* The value of the enumerator called name. *)
ValueOf(decl, name) ==
  EnumValue(decl, CHOOSE i \in 1..Len(decl) : decl[i].name = name)

(***************************************************************************)
(* The two global identifiers and the values an NSString pointer can hold. *)
(***************************************************************************)
DomainIdentifiers == {"XTErrorDomainXit", "XTErrorDomainGit"}

(* Both identifiers defined with the same string. *)
DomainDefinitionsSame ==
  [XTErrorDomainXit |-> "ErrorDomainApplication",
   XTErrorDomainGit |-> "ErrorDomainApplication"]

DomainDefinitions ==
  [XTErrorDomainXit |-> "ErrorDomainApplication",
   XTErrorDomainGit |-> "ErrorDomainUnderlyingLibrary"]

Nil == "nil"

StringValues ==
  {DomainDefinitions.XTErrorDomainXit, DomainDefinitions.XTErrorDomainGit, Nil}

(* The codes of the Git library: nonzero integers. *)
GitCodes == ((0 - MaxGitCode)..MaxGitCode) \ {0}

VARIABLES
  XTErrorDomainXit,   \* the global NSString pointer of that name
  XTErrorDomainGit,   \* the global NSString pointer of that name
  observed,           \* observed[id]: the values the reads of id returned
  local,              \* local[t]: the result of thread t's last operation
  sidebar,            \* the root groups listed so far
  groupIndex          \* the ordinal the listing is at

vars == <<XTErrorDomainXit, XTErrorDomainGit, observed, local, sidebar, groupIndex>>

Idle == [kind |-> "idle", name |-> "", value |-> Nil, code |-> 0]

Global(id) == IF id = "XTErrorDomainXit" THEN XTErrorDomainXit ELSE XTErrorDomainGit

Init ==
  /\ XTErrorDomainXit = DomainDefinitions.XTErrorDomainXit
  /\ XTErrorDomainGit = DomainDefinitions.XTErrorDomainGit
  /\ observed = [id \in DomainIdentifiers |-> {}]
  /\ local = [t \in Threads |-> Idle]
  /\ sidebar = << >>
  /\ groupIndex = 0

(* Thread t reads the global id, without synchronization. *)
LoadDomain(t, id) ==
  /\ local' = [local EXCEPT ![t] =
                 [kind |-> "load", name |-> id, value |-> Global(id), code |-> 0]]
  /\ observed' = [observed EXCEPT ![id] = @ \cup {Global(id)}]
  /\ UNCHANGED <<XTErrorDomainXit, XTErrorDomainGit, sidebar, groupIndex>>

(* Thread t tags an error as the application's i-th error code. *)
TagXitError(t, i) ==
  /\ local' = [local EXCEPT ![t] =
                 [kind |-> "error", name |-> XTErrorDecl[i].name,
                  value |-> XTErrorDomainXit, code |-> EnumValue(XTErrorDecl, i)]]
  /\ UNCHANGED <<XTErrorDomainXit, XTErrorDomainGit, observed, sidebar, groupIndex>>

(* Thread t tags an error the Git library surfaced with code c. *)
TagGitError(t, c) ==
  /\ local' = [local EXCEPT ![t] =
                 [kind |-> "error", name |-> "git",
                  value |-> XTErrorDomainGit, code |-> c]]
  /\ UNCHANGED <<XTErrorDomainXit, XTErrorDomainGit, observed, sidebar, groupIndex>>

(* Thread t tags a reference with the i-th reference type. *)
ClassifyRef(t, i) ==
  /\ local' = [local EXCEPT ![t] =
                 [kind |-> "ref", name |-> XTRefTypeDecl[i].name,
                  value |-> Nil, code |-> EnumValue(XTRefTypeDecl, i)]]
  /\ UNCHANGED <<XTErrorDomainXit, XTErrorDomainGit, observed, sidebar, groupIndex>>

(* The sidebar lists the group whose ordinal is groupIndex, if there is one. *)
RenderGroup ==
  /\ groupIndex < Len(XTSideBarRootItemsDecl)
  /\ sidebar' = IF NamesOf(XTSideBarRootItemsDecl, groupIndex) = {}
                THEN sidebar
                ELSE Append(sidebar,
                            CHOOSE n \in NamesOf(XTSideBarRootItemsDecl, groupIndex) : TRUE)
  /\ groupIndex' = groupIndex + 1
  /\ UNCHANGED <<XTErrorDomainXit, XTErrorDomainGit, observed, local>>

(* The sidebar is reloaded once a listing is complete. *)
ReloadSidebar ==
  /\ groupIndex = Len(XTSideBarRootItemsDecl)
  /\ sidebar' = << >>
  /\ groupIndex' = 0
  /\ UNCHANGED <<XTErrorDomainXit, XTErrorDomainGit, observed, local>>

(* Thread t assigns v to the global id: the declaration is of a plain,     *)
(* non-const pointer, so the assignment compiles in any file that includes *)
(* the header.                                                             *)
StoreDomain(t, id, v) ==
  /\ XTErrorDomainXit' = IF id = "XTErrorDomainXit" THEN v ELSE XTErrorDomainXit
  /\ XTErrorDomainGit' = IF id = "XTErrorDomainGit" THEN v ELSE XTErrorDomainGit
  /\ local' = [local EXCEPT ![t] =
                 [kind |-> "store", name |-> id, value |-> v, code |-> 0]]
  /\ UNCHANGED <<observed, sidebar, groupIndex>>

Next ==
  \/ \E t \in Threads, id \in DomainIdentifiers : LoadDomain(t, id)
  \/ \E t \in Threads, i \in 1..Len(XTErrorDecl) : TagXitError(t, i)
  \/ \E t \in Threads, c \in GitCodes : TagGitError(t, c)
  \/ \E t \in Threads, i \in 1..Len(XTRefTypeDecl) : ClassifyRef(t, i)
  \/ RenderGroup
  \/ ReloadSidebar

(* The process as the repository evidences it: nothing assigns the globals. *)
Spec == Init /\ [][Next]_vars

(* The operations on the two globals, with the assignment their declaration *)
(* admits.                                                                  *)
NextDecl ==
  \/ \E t \in Threads, id \in DomainIdentifiers : LoadDomain(t, id)
  \/ \E t \in Threads, i \in 1..Len(XTErrorDecl) : TagXitError(t, i)
  \/ \E t \in Threads, c \in GitCodes : TagGitError(t, c)
  \/ \E t \in Threads, id \in DomainIdentifiers, v \in StringValues :
       StoreDomain(t, id, v)

(* The process the declarations admit: any thread may assign the globals. *)
SpecDecl == Init /\ [][NextDecl]_vars

(***************************************************************************)
(* Properties.                                                             *)
(***************************************************************************)
IsXitError(t) == local[t].kind = "error" /\ local[t].value = XTErrorDomainXit

IsGitError(t) == local[t].kind = "error" /\ local[t].name = "git"

IsRef(t) == local[t].kind = "ref"

(* C1: XTSideBarRootItems has exactly four pairwise distinct members with   *)
(* the ordinals Branches = 0, Remotes = 1, Tags = 2, Stashes = 3, and the   *)
(* listing by ascending ordinal is, at every point, a prefix of             *)
(* [Branches, Remotes, Tags, Stashes] and, when complete, exactly that      *)
(* sequence.                                                                *)
C1_SidebarOrder ==
  LET expected == << "XTBranchesGroupIndex", "XTRemotesGroupIndex",
                     "XTTagsGroupIndex", "XTStashesGroupIndex" >>
  IN /\ Len(XTSideBarRootItemsDecl) = 4
     /\ Cardinality(Members(XTSideBarRootItemsDecl)) = 4
     /\ \A k \in 1..4 : NamesOf(XTSideBarRootItemsDecl, k - 1) = {expected[k]}
     /\ groupIndex \in 0..4
     /\ sidebar = SubSeq(expected, 1, groupIndex)
     /\ groupIndex = 4 => sidebar = expected

C1_Witness ==
  /\ groupIndex = Len(XTSideBarRootItemsDecl)
  /\ Len(sidebar) = 4

(* C2: XTError has exactly one member, XTErrorWriteLock, whose value is 1:  *)
(* every error tagged with the application's domain is XTErrorWriteLock     *)
(* with code 1.                                                             *)
C2_OnlyWriteLock ==
  /\ Len(XTErrorDecl) = 1
  /\ Members(XTErrorDecl) = {"XTErrorWriteLock"}
  /\ Ordinals(XTErrorDecl) = {1}
  /\ \A t \in Threads :
       IsXitError(t) => local[t].name = "XTErrorWriteLock" /\ local[t].code = 1

C2_Witness ==
  /\ \E t \in Threads : IsXitError(t)
  /\ \E t \in Threads : IsGitError(t)

(* C3: the six XTRefType values are pairwise distinct: the enumeration has  *)
(* exactly these six members, each ordinal denotes the one member it was    *)
(* taken from, and Unknown differs from each of the other five.             *)
C3_RefTypesDistinct ==
  /\ Len(XTRefTypeDecl) = 6
  /\ Members(XTRefTypeDecl) =
       {"XTRefTypeBranch", "XTRefTypeActiveBranch", "XTRefTypeRemoteBranch",
        "XTRefTypeTag", "XTRefTypeRemote", "XTRefTypeUnknown"}
  /\ \A i, j \in 1..Len(XTRefTypeDecl) :
       i # j => EnumValue(XTRefTypeDecl, i) # EnumValue(XTRefTypeDecl, j)
  /\ \A t \in Threads :
       IsRef(t) =>
         /\ NamesOf(XTRefTypeDecl, local[t].code) = {local[t].name}
         /\ local[t].name # "XTRefTypeUnknown" =>
              local[t].code # ValueOf(XTRefTypeDecl, "XTRefTypeUnknown")

C3_Witness ==
  /\ \E t \in Threads : IsRef(t) /\ local[t].name = "XTRefTypeUnknown"
  /\ \E t \in Threads : IsRef(t) /\ local[t].name = "XTRefTypeBranch"

(* C4: the two error-domain identifiers are distinct in every reachable     *)
(* state, and every read of an identifier returned the value every earlier  *)
(* read of it returned.                                                     *)
C4_DomainsDistinctStable ==
  /\ XTErrorDomainXit # XTErrorDomainGit
  /\ \A id \in DomainIdentifiers : Cardinality(observed[id]) <= 1
  /\ \A t \in Threads :
       local[t].kind = "load" => observed[local[t].name] = {local[t].value}

C4_Witness ==
  /\ \A id \in DomainIdentifiers : observed[id] # {}
  /\ \A t \in Threads : local[t].kind = "load"
  /\ \E t, u \in Threads : local[t].name # local[u].name

(* C5: the two error-domain identifiers are immutable: in every state the   *)
(* declarations admit, both hold their initial value and every reader has   *)
(* observed the initial value.                                              *)
C5_DomainsImmutable ==
  /\ XTErrorDomainXit = DomainDefinitions.XTErrorDomainXit
  /\ XTErrorDomainGit = DomainDefinitions.XTErrorDomainGit
  /\ \A id \in DomainIdentifiers : observed[id] \subseteq {DomainDefinitions[id]}

(* C6: an error tagged as the application's write-lock error is the pair    *)
(* (XTErrorDomainXit, 1): its code is 1 and its domain is the application's *)
(* and not the Git library's.                                               *)
C6_WriteLockError ==
  \A t \in Threads :
    (local[t].kind = "error" /\ local[t].name = "XTErrorWriteLock") =>
      /\ local[t].value = XTErrorDomainXit
      /\ local[t].value # XTErrorDomainGit
      /\ local[t].code = 1

C6_Witness ==
  /\ \E t \in Threads : local[t].kind = "error" /\ local[t].name = "XTErrorWriteLock"
  /\ \E t \in Threads : IsGitError(t) /\ local[t].code = 1

(* C7: no member of XTError has the value 0, so no error of the             *)
(* application's domain carries the code 0.                                 *)
C7_ZeroUnused ==
  /\ 0 \notin Ordinals(XTErrorDecl)
  /\ \A t \in Threads : IsXitError(t) => local[t].code # 0

C7_Witness ==
  \A t \in Threads : IsXitError(t)

(* C8: the XTRefType ordinals are 0..5 in declaration order, Unknown the    *)
(* largest, each integer of 0..5 denoting exactly one reference type; the   *)
(* XTSideBarRootItems ordinals are 0..3 without a gap, so each ordinal      *)
(* indexes the four-element group list.                                     *)
C8_OrdinalsContiguous ==
  /\ \A i \in 1..Len(XTRefTypeDecl) : EnumValue(XTRefTypeDecl, i) = i - 1
  /\ Ordinals(XTRefTypeDecl) = 0..5
  /\ \A n \in 0..5 : Cardinality(NamesOf(XTRefTypeDecl, n)) = 1
  /\ \A n \in Ordinals(XTRefTypeDecl) : n <= ValueOf(XTRefTypeDecl, "XTRefTypeUnknown")
  /\ Ordinals(XTSideBarRootItemsDecl) = 0..3
  /\ \A t \in Threads :
       IsRef(t) =>
         /\ local[t].code \in 0..5
         /\ XTRefTypeDecl[local[t].code + 1].name = local[t].name
  /\ Len(sidebar) = groupIndex
  /\ \A k \in 1..Len(sidebar) :
       ValueOf(XTSideBarRootItemsDecl, sidebar[k]) + 1 = k

C8_Witness ==
  /\ \E t \in Threads : IsRef(t) /\ local[t].code = 5
  /\ Len(sidebar) = 4

====
